---- MODULE Spec2Model ----
(***************************************************************************)
(* Document ingestion core of deepseek-chat: the text chunker              *)
(* (app/services/file_processor.py), the embedding provider                *)
(* (app/services/vector_service.py) and the ingestion orchestrator         *)
(* (app/services/document_service.py) over its SQLAlchemy session.         *)
(*                                                                         *)
(* The specifications share the variables; each moves the variables of   *)
(* one component and leaves the others at their initial values:            *)
(*   ChunkSpec / FairChunkSpec  the chunker's window loop                  *)
(*   SeqSpec                    the embedding provider, one caller         *)
(*   ReloadSpec                 the same, with explicit reloads            *)
(*   ConcSpec                   the embedding provider, two worker threads *)
(*   Spec                       create / process / delete over the store   *)
(***************************************************************************)
EXTENDS Integers, Sequences, FiniteSets, TLC

(***************************************************************************)
(* Bounds of the model.                                                    *)
(***************************************************************************)
\* longest text handed to the chunker
MaxLen == 5
\* largest chunk_size tried (chunk_overlap ranges over 0..chunk_size-1)
MaxSize == 4

\* The chunk list is recorded up to this length.  A run that leaves the loop
\* appends at most Len(text) chunks, so only runs that never leave the loop
\* reach it.
MaxChunks == MaxLen + 1

\* embedding calls made in one run of the provider
MaxCalls == 2
\* longest list handed to get_embeddings_batch
MaxBatch == 2
\* documents created in one run
MaxDocs == 1
\* most segments one file yields
MaxFileChunks == 2
\* process_document calls made in one run
MaxProcess == 3
\* settings.EMBEDDING_DIMENSION, scaled down (vectors are modelled by their
\* origin and length, not by their numbers)
ConfiguredDim == 2

VARIABLES
    \* ---- chunker (FileProcessor._simple_text_chunking)
    text,            \* the argument, a sequence of one-character strings
    chunk_size,      \* self.chunk_size
    chunk_overlap,   \* self.chunk_overlap
    start,           \* local start
    end,             \* local end
    chunks,          \* local chunks
    cpc,             \* "loop" at the while test, "cut" with the window's edge
                     \* found, "done" after return
    \* ---- embedding provider (VectorService)
    dimension,            \* self.dimension
    model,                \* self.model: "none" (None) or "loaded"
    model_load_attempted, \* self._model_load_attempted
    backend_dim,          \* length of the vectors the backend produces
    load_count,           \* history: times _try_load_model went past line 33
    ncalls,               \* history: calls started
    threads,              \* the threads that call the provider
    wpc,                  \* per thread: where it is in its call
    wop,                  \* per thread: "single", "batch" or "reload"
    wtexts,               \* per thread: the texts of its call
    wi,                   \* per thread: index of the text in hand
    wcont,                \* per thread: where _try_load_model returns to
    wout,                 \* per thread: the vectors produced so far
    wok,                  \* per thread: reload_model's result
    fallback_seen,        \* history: text and vector of every get_embedding
                          \* answered in fallback mode, in order
    returned_dims,        \* history: the lengths of all vectors handed back
    rng,                  \* numpy's process-wide generator: the seed last set
                          \* and the number of draws made since
    \* ---- store, disk and orchestrator (DocumentService)
    documents,       \* table documents: id -> row, committed state
    document_chunks, \* table document_chunks: set of rows, committed state
    next_doc_id,     \* documents.id autoincrement
    next_chunk_id,   \* document_chunks.id autoincrement
    files,           \* ids of the documents whose file is on disk
    file_chunks,     \* per document: segments process_file yields for its file
    nproc,           \* history: process_document calls started
    ppc,             \* per worker: where it is in process_document
    pdoc,            \* per worker: document_id
    obj,             \* per worker: the Document object of its session
    session_active,  \* per worker: FALSE once a flush of its session failed
    session_new,     \* per worker: DocumentChunk objects added, not flushed
    pchunks,         \* per worker: len(chunks)
    pemb,            \* per worker: embeddings
    saved_chunks,    \* per worker: saved_chunks
    pexc,            \* per worker: the exception caught at line 216
    dpc,             \* delete_document: where it is
    ddoc,            \* delete_document: document_id
    dret,            \* delete_document: value returned
    dremoved,        \* history: the os.remove of this call removed the file
    \* ---- search (VectorService.search_similar)
    stored,          \* the rows of document_chunks, in the order a query
                     \* without ORDER BY returns them
    query_embedding, \* local query_embedding
    limit,           \* argument limit
    threshold,       \* argument threshold, in tenths
    search_results,  \* the list returned
    spc              \* search_similar: "idle", "called" or "returned"

chunkVars == <<text, chunk_size, chunk_overlap, start, end, chunks, cpc>>

embVars == <<dimension, model, model_load_attempted, backend_dim, load_count,
             ncalls, threads, wpc, wop, wtexts, wi, wcont, wout, wok,
             fallback_seen, returned_dims, rng>>

storeVars == <<documents, document_chunks, next_doc_id, next_chunk_id, files,
               file_chunks>>

procVars == <<nproc, ppc, pdoc, obj, session_active, session_new, pchunks,
              pemb, saved_chunks, pexc>>

delVars == <<dpc, ddoc, dret, dremoved>>

searchVars == <<stored, query_embedding, limit, threshold, search_results, spc>>

docVars == <<storeVars, procVars, delVars, searchVars>>

vars == <<chunkVars, embVars, docVars>>


(***************************************************************************)
(* The components at rest.                                                 *)
(***************************************************************************)
Workers == {"w1", "w2"}

\* the provider before its first call, lines 18-23; nothing is in flight
EmbQuiet ==
    /\ dimension = ConfiguredDim
    /\ model = "none"
    /\ model_load_attempted = FALSE
    /\ load_count = 0
    /\ ncalls = 0
    /\ wpc = [w \in Workers |-> "idle"]
    /\ wop = [w \in Workers |-> "none"]
    /\ wtexts = [w \in Workers |-> <<>>]
    /\ wi = [w \in Workers |-> 1]
    /\ wcont = [w \in Workers |-> "none"]
    /\ wout = [w \in Workers |-> <<>>]
    /\ wok = [w \in Workers |-> FALSE]
    /\ fallback_seen = <<>>
    /\ returned_dims = {}
    /\ rng = [seed |-> "os", drawn |-> 0]

ChunkQuiet ==
    /\ text = <<>>
    /\ chunk_size = 1
    /\ chunk_overlap = 0
    /\ start = 0
    /\ end = 0
    /\ chunks = <<>>
    /\ cpc = "done"

\* no metadata key "chunks_count" (lines 105-109 set none)
AbsentCount == -1

\* no metadata key "error"
AbsentError == ""

Meta(st, n, e) == [status |-> st, chunks_count |-> n, error |-> e]

\* no Document object in the session
NoObject ==
    [bound |-> FALSE, expired |-> FALSE, dirty |-> FALSE,
     file_metadata |-> Meta("", AbsentCount, AbsentError)]

\* the store before the first upload; no call is in flight
IngestQuiet ==
    /\ documents = <<>>
    /\ document_chunks = {}
    /\ next_doc_id = 1
    /\ next_chunk_id = 1
    /\ files = {}
    /\ file_chunks = <<>>
    /\ nproc = 0
    /\ ppc = [w \in Workers |-> "idle"]
    /\ pdoc = [w \in Workers |-> 0]
    /\ obj = [w \in Workers |-> NoObject]
    /\ session_active = [w \in Workers |-> TRUE]
    /\ session_new = [w \in Workers |-> <<>>]
    /\ pchunks = [w \in Workers |-> 0]
    /\ pemb = [w \in Workers |-> <<>>]
    /\ saved_chunks = [w \in Workers |-> 0]
    /\ pexc = [w \in Workers |-> "none"]
    /\ dpc = "idle"
    /\ ddoc = 0
    /\ dret = FALSE
    /\ dremoved = FALSE

\* no search under way
SearchQuiet ==
    /\ stored = <<>>
    /\ query_embedding = <<>>
    /\ limit = 0
    /\ threshold = 0
    /\ search_results = <<>>
    /\ spc = "idle"

DocQuiet == IngestQuiet /\ SearchQuiet

(***************************************************************************)
(* Embedding provider.  A vector is modelled by where it comes from, its   *)
(* length and the text it was made for.                                    *)
(***************************************************************************)
\* texts handed to the provider: empty, whitespace-only and two others
EmbTexts == {"", " ", "a", "b"}

\* not text or not text.strip(), lines 102 and following
IsBlank(t) == t \in {"", " "}

RECURSIVE BatchesOfLen(_)
BatchesOfLen(n) ==
    IF n = 0 THEN {<<>>}
    ELSE {Append(ts, t) : ts \in BatchesOfLen(n - 1), t \in EmbTexts}

Batches == UNION {BatchesOfLen(n) : n \in 0..MaxBatch}

\* _get_zero_vector, lines 331-333
get_zero_vector(dim) == [kind |-> "zero", dim |-> dim, of |-> "", skip |-> 0]

\* _get_random_vector, lines 335-353, run with no other thread in between:
\* the first draw after seeding with the text's digest, of length
\* self.dimension
get_random_vector(t, dim) ==
    [kind |-> "random", dim |-> dim, of |-> t, skip |-> 0]

\* np.random.randn(self.dimension), line 346, normalised: the values the
\* process-wide generator gives next, fixed by its last seed and the draws
\* made since
drawn_vector(dim) ==
    [kind |-> "random", dim |-> dim, of |-> rng.seed, skip |-> rng.drawn]

\* self.model.encode(text): a vector of the backend's own length
encode(t) == [kind |-> "model", dim |-> backend_dim, of |-> t, skip |-> 0]

\* the test of lines 107 and 135 (self._use_lazy_loading is always True)
LazyLoadNeeded == ~model_load_attempted

\* the test of line 30
AlreadyAttempted(force_reload) == model_load_attempted /\ ~force_reload

EmbInit(ts) ==
    /\ EmbQuiet
    /\ threads = ts
    /\ backend_dim \in {ConfiguredDim, ConfiguredDim + 1}

\* a caller enters get_embedding(t)
CallGetEmbedding(w, t) ==
    /\ wpc[w] = "idle"
    /\ ncalls < MaxCalls
    /\ ncalls' = ncalls + 1
    /\ wop' = [wop EXCEPT ![w] = "single"]
    /\ wtexts' = [wtexts EXCEPT ![w] = <<t>>]
    /\ wi' = [wi EXCEPT ![w] = 1]
    /\ wout' = [wout EXCEPT ![w] = <<>>]
    /\ wpc' = [wpc EXCEPT ![w] = "ge_start"]
    /\ UNCHANGED <<dimension, model, model_load_attempted, backend_dim,
                   load_count, threads, wcont, wok>>
    /\ UNCHANGED <<fallback_seen, returned_dims, rng>>
    /\ UNCHANGED <<chunkVars, docVars>>

\* a caller enters get_embeddings_batch(ts)
CallGetEmbeddingsBatch(w, ts) ==
    /\ wpc[w] = "idle"
    /\ ncalls < MaxCalls
    /\ ncalls' = ncalls + 1
    /\ wop' = [wop EXCEPT ![w] = "batch"]
    /\ wtexts' = [wtexts EXCEPT ![w] = ts]
    /\ wi' = [wi EXCEPT ![w] = 1]
    /\ wout' = [wout EXCEPT ![w] = <<>>]
    /\ wpc' = [wpc EXCEPT ![w] = "gb_start"]
    /\ UNCHANGED <<dimension, model, model_load_attempted, backend_dim,
                   load_count, threads, wcont, wok>>
    /\ UNCHANGED <<fallback_seen, returned_dims, rng>>
    /\ UNCHANGED <<chunkVars, docVars>>

\* a caller enters reload_model(), lines 381-391: self.model = None, then
\* self._try_load_model() with force_reload left at its default
CallReloadModel(w) ==
    /\ wpc[w] = "idle"
    /\ ncalls < MaxCalls
    /\ ncalls' = ncalls + 1
    /\ wop' = [wop EXCEPT ![w] = "reload"]
    /\ wtexts' = [wtexts EXCEPT ![w] = <<>>]
    /\ wout' = [wout EXCEPT ![w] = <<>>]
    /\ model' = "none"
    /\ wcont' = [wcont EXCEPT ![w] = "rl_done"]
    /\ wpc' = [wpc EXCEPT ![w] = "tl_check"]
    /\ UNCHANGED <<dimension, model_load_attempted, backend_dim, load_count,
                   threads, wi, wok>>
    /\ UNCHANGED <<fallback_seen, returned_dims, rng>>
    /\ UNCHANGED <<chunkVars, docVars>>

\* the provider has tried to load and has no model
FallbackMode == model_load_attempted /\ model = "none"

\* get_embedding hands back v: to its caller, or to the loop of
\* get_embeddings_batch (lines 151-155)
ReturnVector(w, v) ==
    /\ wout' = [wout EXCEPT ![w] = Append(@, v)]
    /\ fallback_seen' = IF FallbackMode
                        THEN Append(fallback_seen, <<wtexts[w][wi[w]], v>>)
                        ELSE fallback_seen
    /\ returned_dims' = returned_dims \cup {v.dim}
    /\ IF wop[w] = "batch" /\ wi[w] < Len(wtexts[w])
       THEN /\ wi' = [wi EXCEPT ![w] = @ + 1]
            /\ wpc' = [wpc EXCEPT ![w] = "ge_start"]
       ELSE /\ wi' = wi
            /\ wpc' = [wpc EXCEPT ![w] = "returned"]

\* get_embedding with the lazy load of lines 107-109 moved above the blank
\* test of lines 102-104
GetEmbeddingStart_LoadFirst(w) ==
    /\ wpc[w] = "ge_start"
    /\ LET t == wtexts[w][wi[w]]
       IN  IF LazyLoadNeeded
           THEN /\ wpc' = [wpc EXCEPT ![w] = "tl_check"]
                /\ wcont' = [wcont EXCEPT ![w] = "ge_start"]
                /\ UNCHANGED <<wout, wi, fallback_seen, returned_dims>>
           ELSE IF IsBlank(t)
                THEN /\ ReturnVector(w, get_zero_vector(dimension))
                     /\ wcont' = wcont
                ELSE /\ wpc' = [wpc EXCEPT ![w] = "ge_use"]
                     /\ wcont' = wcont
                     /\ UNCHANGED <<wout, wi, fallback_seen, returned_dims>>
    /\ UNCHANGED <<dimension, model, model_load_attempted, backend_dim,
                   load_count, ncalls, threads, wop, wtexts, wok, rng>>
    /\ UNCHANGED <<chunkVars, docVars>>

\* get_embedding, lines 102-109
GetEmbeddingStart(w) ==
    /\ wpc[w] = "ge_start"
    /\ LET t == wtexts[w][wi[w]]
       IN  IF IsBlank(t)
           THEN /\ ReturnVector(w, get_zero_vector(dimension))
                /\ wcont' = wcont
           ELSE /\ IF LazyLoadNeeded
                   THEN /\ wpc' = [wpc EXCEPT ![w] = "tl_check"]
                        /\ wcont' = [wcont EXCEPT ![w] = "ge_use"]
                   ELSE /\ wpc' = [wpc EXCEPT ![w] = "ge_use"]
                        /\ wcont' = wcont
                /\ UNCHANGED <<wout, wi, fallback_seen, returned_dims>>
    /\ UNCHANGED <<dimension, model, model_load_attempted, backend_dim,
                   load_count, ncalls, threads, wop, wtexts, wok, rng>>
    /\ UNCHANGED <<chunkVars, docVars>>

\* get_embedding without the inner try of lines 113-118: an encode that
\* raises is answered by the outer except of lines 124-126
GetEmbeddingUse_OuterExceptOnly(w) ==
    /\ wpc[w] = "ge_use"
    /\ LET t == wtexts[w][wi[w]]
       IN  IF model # "none"
           THEN \E encode_ok \in BOOLEAN :
                    ReturnVector(w, IF encode_ok THEN encode(t)
                                    ELSE get_zero_vector(dimension))
           ELSE /\ wpc' = [wpc EXCEPT ![w] = "rv_seed"]
                /\ UNCHANGED <<wout, wi, fallback_seen, returned_dims>>
    /\ UNCHANGED <<dimension, model, model_load_attempted, backend_dim,
                   load_count, ncalls, threads, wop, wtexts, wcont, wok, rng>>
    /\ UNCHANGED <<chunkVars, docVars>>

\* get_embedding, lines 112-122: the backend's vector when a model is loaded
\* and encode succeeds, else _get_random_vector is entered
GetEmbeddingUse(w) ==
    /\ wpc[w] = "ge_use"
    /\ LET t == wtexts[w][wi[w]]
       IN  \E encode_ok \in BOOLEAN :
              IF model # "none" /\ encode_ok
              THEN ReturnVector(w, encode(t))
              ELSE /\ wpc' = [wpc EXCEPT ![w] = "rv_seed"]
                   /\ UNCHANGED <<wout, wi, fallback_seen, returned_dims>>
    /\ UNCHANGED <<dimension, model, model_load_attempted, backend_dim,
                   load_count, ncalls, threads, wop, wtexts, wcont, wok, rng>>
    /\ UNCHANGED <<chunkVars, docVars>>

\* _get_random_vector with the np.random.seed(seed) of line 343 left out
RandomVectorSeed_NoSeed(w) ==
    /\ wpc[w] = "rv_seed"
    /\ wpc' = [wpc EXCEPT ![w] = "rv_draw"]
    /\ UNCHANGED <<dimension, model, model_load_attempted, backend_dim,
                   load_count, ncalls, threads, wop, wtexts, wi, wcont, wout,
                   wok>>
    /\ UNCHANGED <<fallback_seen, returned_dims, rng>>
    /\ UNCHANGED <<chunkVars, docVars>>

\* _get_random_vector, lines 339-343: the process-wide generator is seeded
\* with the digest of the text
RandomVectorSeed(w) ==
    /\ wpc[w] = "rv_seed"
    /\ rng' = [seed |-> wtexts[w][wi[w]], drawn |-> 0]
    /\ wpc' = [wpc EXCEPT ![w] = "rv_draw"]
    /\ UNCHANGED <<dimension, model, model_load_attempted, backend_dim,
                   load_count, ncalls, threads, wop, wtexts, wi, wcont, wout,
                   wok>>
    /\ UNCHANGED <<fallback_seen, returned_dims>>
    /\ UNCHANGED <<chunkVars, docVars>>

\* _get_random_vector, lines 346-353: self.dimension values are drawn from
\* the process-wide generator and normalised
RandomVectorDraw(w) ==
    /\ wpc[w] = "rv_draw"
    /\ ReturnVector(w, drawn_vector(dimension))
    /\ rng' = [rng EXCEPT !.drawn = @ + 1]
    /\ UNCHANGED <<dimension, model, model_load_attempted, backend_dim,
                   load_count, ncalls, threads, wop, wtexts, wcont, wok>>
    /\ UNCHANGED <<chunkVars, docVars>>

\* get_embeddings_batch, lines 131-137
GetEmbeddingsBatchStart(w) ==
    /\ wpc[w] = "gb_start"
    /\ IF wtexts[w] = <<>>
       THEN /\ wpc' = [wpc EXCEPT ![w] = "returned"]
            /\ wcont' = wcont
       ELSE IF LazyLoadNeeded
            THEN /\ wpc' = [wpc EXCEPT ![w] = "tl_check"]
                 /\ wcont' = [wcont EXCEPT ![w] = "gb_use"]
            ELSE /\ wpc' = [wpc EXCEPT ![w] = "gb_use"]
                 /\ wcont' = wcont
    /\ UNCHANGED <<dimension, model, model_load_attempted, backend_dim,
                   load_count, ncalls, threads, wop, wtexts, wi, wout, wok>>
    /\ UNCHANGED <<fallback_seen, returned_dims, rng>>
    /\ UNCHANGED <<chunkVars, docVars>>

\* get_embeddings_batch, lines 140-151: one encode of the whole list when a
\* model is loaded and it succeeds, else get_embedding text by text
GetEmbeddingsBatchUse(w) ==
    /\ wpc[w] = "gb_use"
    /\ \E encode_ok \in BOOLEAN :
          IF model # "none" /\ encode_ok
          THEN /\ wout' = [wout EXCEPT
                             ![w] = [i \in 1..Len(wtexts[w]) |-> encode(wtexts[w][i])]]
               /\ returned_dims' = returned_dims \cup {backend_dim}
               /\ wpc' = [wpc EXCEPT ![w] = "returned"]
          ELSE /\ wout' = wout
               /\ returned_dims' = returned_dims
               /\ wpc' = [wpc EXCEPT ![w] = "ge_start"]
    /\ UNCHANGED <<dimension, model, model_load_attempted, backend_dim,
                   load_count, ncalls, threads, wop, wtexts, wi, wcont, wok>>
    /\ UNCHANGED <<fallback_seen, rng>>
    /\ UNCHANGED <<chunkVars, docVars>>

\* _try_load_model, lines 30-31
TryLoadCheck(w) ==
    /\ wpc[w] = "tl_check"
    /\ wpc' = [wpc EXCEPT ![w] = IF AlreadyAttempted(FALSE) THEN wcont[w]
                                 ELSE "tl_mark"]
    /\ UNCHANGED <<dimension, model, model_load_attempted, backend_dim,
                   load_count, ncalls, threads, wop, wtexts, wi, wcont, wout,
                   wok>>
    /\ UNCHANGED <<fallback_seen, returned_dims, rng>>
    /\ UNCHANGED <<chunkVars, docVars>>

\* TryLoadMark with the flag of line 33 left unset
TryLoadMark_FlagNotSet(w) ==
    /\ wpc[w] = "tl_mark"
    /\ load_count' = load_count + 1
    /\ wpc' = [wpc EXCEPT ![w] = "tl_load"]
    /\ UNCHANGED <<dimension, model, model_load_attempted, backend_dim, ncalls,
                   threads, wop, wtexts, wi, wcont, wout, wok>>
    /\ UNCHANGED <<fallback_seen, returned_dims, rng>>
    /\ UNCHANGED <<chunkVars, docVars>>

\* _try_load_model, line 33: the flag is set before the load begins
TryLoadMark(w) ==
    /\ wpc[w] = "tl_mark"
    /\ model_load_attempted' = TRUE
    /\ load_count' = load_count + 1
    /\ wpc' = [wpc EXCEPT ![w] = "tl_load"]
    /\ UNCHANGED <<dimension, model, backend_dim, ncalls, threads, wop, wtexts,
                   wi, wcont, wout, wok>>
    /\ UNCHANGED <<fallback_seen, returned_dims, rng>>
    /\ UNCHANGED <<chunkVars, docVars>>

\* what the environment makes of a load: SKIP_VECTOR_MODEL=true (line 40),
\* sentence-transformers missing (line 90), the constructor raising (line
\* 77) or returning (line 61)
LoadOutcomes == {"skipped", "import_error", "load_error", "loaded"}

\* _try_load_model, lines 35-66 and 77-97
TryLoadModel(w) ==
    /\ wpc[w] = "tl_load"
    /\ \E outcome \in LoadOutcomes :
          IF outcome = "loaded"
          THEN /\ model' = "loaded"
               /\ wpc' = [wpc EXCEPT ![w] = "tl_probe"]
          ELSE /\ model' = "none"
               /\ wpc' = [wpc EXCEPT ![w] = wcont[w]]
    /\ UNCHANGED <<dimension, model_load_attempted, backend_dim, load_count,
                   ncalls, threads, wop, wtexts, wi, wcont, wout, wok>>
    /\ UNCHANGED <<fallback_seen, returned_dims, rng>>
    /\ UNCHANGED <<chunkVars, docVars>>

\* _try_load_model, lines 68-85: the probe sets self.dimension to the
\* backend's length; a probe that raises drops the model
TryLoadProbe(w) ==
    /\ wpc[w] = "tl_probe"
    /\ \E probe_ok \in BOOLEAN :
          IF probe_ok
          THEN /\ dimension' = backend_dim
               /\ model' = model
          ELSE /\ dimension' = dimension
               /\ model' = "none"
    /\ wpc' = [wpc EXCEPT ![w] = wcont[w]]
    /\ UNCHANGED <<model_load_attempted, backend_dim, load_count, ncalls,
                   threads, wop, wtexts, wi, wcont, wout, wok>>
    /\ UNCHANGED <<fallback_seen, returned_dims, rng>>
    /\ UNCHANGED <<chunkVars, docVars>>

\* reload_model, lines 393-403
ReloadModelDone(w) ==
    /\ wpc[w] = "rl_done"
    /\ wok' = [wok EXCEPT ![w] = (model # "none")]
    /\ wpc' = [wpc EXCEPT ![w] = "returned"]
    /\ UNCHANGED <<dimension, model, model_load_attempted, backend_dim,
                   load_count, ncalls, threads, wop, wtexts, wi, wcont, wout>>
    /\ UNCHANGED <<fallback_seen, returned_dims, rng>>
    /\ UNCHANGED <<chunkVars, docVars>>

\* the caller takes the result; the thread is free for its next call
CallReturns(w) ==
    /\ wpc[w] = "returned"
    /\ wpc' = [wpc EXCEPT ![w] = "idle"]
    /\ wop' = [wop EXCEPT ![w] = "none"]
    /\ wtexts' = [wtexts EXCEPT ![w] = <<>>]
    /\ wi' = [wi EXCEPT ![w] = 1]
    /\ wcont' = [wcont EXCEPT ![w] = "none"]
    /\ wout' = [wout EXCEPT ![w] = <<>>]
    /\ wok' = [wok EXCEPT ![w] = FALSE]
    /\ UNCHANGED <<dimension, model, model_load_attempted, backend_dim,
                   load_count, ncalls, threads>>
    /\ UNCHANGED <<fallback_seen, returned_dims, rng>>
    /\ UNCHANGED <<chunkVars, docVars>>

EmbNext ==
    \/ \E w \in threads, t \in EmbTexts : CallGetEmbedding(w, t)
    \/ \E w \in threads, ts \in Batches : CallGetEmbeddingsBatch(w, ts)
    \/ \E w \in threads : GetEmbeddingStart(w)
    \/ \E w \in threads : GetEmbeddingUse(w)
    \/ \E w \in threads : RandomVectorSeed(w)
    \/ \E w \in threads : RandomVectorDraw(w)
    \/ \E w \in threads : GetEmbeddingsBatchStart(w)
    \/ \E w \in threads : GetEmbeddingsBatchUse(w)
    \/ \E w \in threads : TryLoadCheck(w)
    \/ \E w \in threads : TryLoadMark(w)
    \/ \E w \in threads : TryLoadModel(w)
    \/ \E w \in threads : TryLoadProbe(w)
    \/ \E w \in threads : CallReturns(w)

\* the calls above and explicit reloads
ReloadNext ==
    \/ EmbNext
    \/ \E w \in threads : CallReloadModel(w)
    \/ \E w \in threads : ReloadModelDone(w)

\* one caller: the calls follow one another
SeqInit == EmbInit({"w1"}) /\ ChunkQuiet /\ DocQuiet

SeqSpec == SeqInit /\ [][EmbNext]_vars

\* two worker threads call the one provider (background tasks run
\* process_document_background on a thread pool)
ConcInit == EmbInit(Workers) /\ ChunkQuiet /\ DocQuiet

ConcSpec == ConcInit /\ [][EmbNext]_vars

\* one caller that also asks for reloads
ReloadSpec == SeqInit /\ [][ReloadNext]_vars

\* the last vector a thread produced
LastVector(out) == out[Len(out)]

\* C3: when several workers make their first call concurrently, the load is
\* attempted exactly once, and no call hands back the seeded fallback vector
\* while another thread's load is still under way.
C3_LoadOnceAndDecidedFirst ==
    [][/\ load_count' <= 1
       /\ \A w \in Workers :
            (wpc[w] = "ge_use" /\ wpc'[w] # "ge_use" /\ model = "none")
                => ~\E v \in Workers \ {w} : wpc[v] = "tl_load"]_vars

\* C4: in a sequence of calls the load is attempted at most once: once the
\* flag is set no later call goes past line 33 again, and a call that finds
\* no model hands back the seeded fallback vector.
C4_LoadAttemptedAtMostOnce ==
    [][/\ load_count' <= 1
       /\ (model_load_attempted => load_count' = load_count)
       /\ \A w \in Workers :
            /\ (wpc[w] = "ge_use" /\ wpc'[w] # "ge_use" /\ model = "none")
                  => wpc'[w] = "rv_seed"
            /\ (wpc[w] = "rv_draw" /\ wpc'[w] # "rv_draw")
                  => LastVector(wout'[w]).kind = "random"]_vars

\* a second call that found the failed attempt of an earlier one: it never
\* entered _try_load_model and handed back the fallback vector
C4_Witness ==
    /\ ncalls = 2
    /\ load_count = 1
    /\ model_load_attempted
    /\ model = "none"
    /\ wpc["w1"] = "returned"
    /\ wcont["w1"] = "none"
    /\ wout["w1"] # <<>>
    /\ LastVector(wout["w1"]).kind = "random"

(***************************************************************************)
(* Chunker.                                                                *)
(***************************************************************************)
\* characters of the modelled texts: a letter, a sentence end, two kinds of
\* whitespace
Chars == {"a", ".", " ", "\n"}

\* str.strip() removes these
Whitespace == {" ", "\n"}

\* sentence_ends of line 148; the three full-width marks are written by
\* their code points (no modelled text holds them)
sentence_ends == {".", "!", "?", "U+3002", "U+FF01", "U+FF1F", "\n\n"}

RECURSIVE TextsOfLen(_)
TextsOfLen(n) ==
    IF n = 0 THEN {<<>>}
    ELSE {Append(t, c) : t \in TextsOfLen(n - 1), c \in Chars}

Texts == UNION {TextsOfLen(n) : n \in 0..MaxLen}

Min(a, b) == IF a < b THEN a ELSE b

\* text[a:b] of Python for 0 <= a, b <= len(text)
Slice(t, a, b) == SubSeq(t, a + 1, b)

RECURSIVE LStrip(_)
LStrip(s) ==
    IF s # <<>> /\ Head(s) \in Whitespace THEN LStrip(Tail(s)) ELSE s

RECURSIVE RStrip(_)
RStrip(s) ==
    IF s # <<>> /\ s[Len(s)] \in Whitespace
    THEN RStrip(SubSeq(s, 1, Len(s) - 1))
    ELSE s

\* str.strip()
Strip(s) == RStrip(LStrip(s))

\* (i - start) > self.chunk_size * 0.7, in tenths (exact for the sizes of the
\* model, where chunk_size * 0.7 is never an integer)
PastSeventyPercent(i, s, size) == 10 * (i - s) > 7 * size

\* the positions i of range(end, start, -1) that line 150 accepts; the
\* character text[i - 1] of Python is t[i] here
BoundaryPositions(t, s, e, size) ==
    {i \in (s + 1)..e : t[i] \in sentence_ends /\ PastSeventyPercent(i, s, size)}

Max(S) == CHOOSE x \in S : \A y \in S : y <= x

\* lines 143-152: the window's right edge
WindowEnd(t, s, size) ==
    LET e == Min(s + size, Len(t))
        B == BoundaryPositions(t, s, e, size)
    IN  IF e < Len(t) /\ B # {} THEN Max(B) ELSE e

\* lines 160-162: the next window's start
NextStart(e, overlap) == IF e - overlap < 0 THEN 0 ELSE e - overlap

\* line 157 without the test of line 156
AppendChunk_KeepEmpty(cs, c) ==
    IF Len(cs) < MaxChunks THEN Append(cs, c) ELSE cs

\* lines 155-157, with the list recorded up to MaxChunks
AppendChunk(cs, c) ==
    IF c # <<>> /\ Len(cs) < MaxChunks THEN Append(cs, c) ELSE cs

ChunkInit ==
    /\ EmbQuiet
    /\ DocQuiet
    /\ threads = {}
    /\ backend_dim = ConfiguredDim
    /\ text \in Texts
    /\ chunk_size \in 1..MaxSize
    /\ chunk_overlap \in 0..(chunk_size - 1)
    /\ start = 0
    /\ end = 0
    /\ chunks = <<>>
    /\ cpc = "loop"

\* the while test holds and the window's edge is found, lines 141-152
ChunkWindow ==
    /\ cpc = "loop"
    /\ start < Len(text)
    /\ end' = WindowEnd(text, start, chunk_size)
    /\ cpc' = "cut"
    /\ UNCHANGED <<text, chunk_size, chunk_overlap, start, chunks>>
    /\ UNCHANGED <<embVars, docVars>>

\* the window is cut and the start moved, lines 154-162
ChunkCut ==
    /\ cpc = "cut"
    /\ chunks' = AppendChunk(chunks, Strip(Slice(text, start, end)))
    /\ start' = NextStart(end, chunk_overlap)
    /\ cpc' = "loop"
    /\ UNCHANGED <<text, chunk_size, chunk_overlap, end>>
    /\ UNCHANGED <<embVars, docVars>>

\* lines 134-135 and the loop's exit, line 164
ChunkReturn ==
    /\ cpc = "loop"
    /\ ~(start < Len(text))
    /\ cpc' = "done"
    /\ UNCHANGED <<text, chunk_size, chunk_overlap, start, end, chunks>>
    /\ UNCHANGED <<embVars, docVars>>

ChunkNext == ChunkWindow \/ ChunkCut \/ ChunkReturn

ChunkSpec == ChunkInit /\ [][ChunkNext]_vars

\* the loop is sequential code: a step that can run does run
FairChunkSpec == ChunkSpec /\ WF_vars(ChunkNext)

\* C1: for every non-empty text and every valid configuration the window loop
\* terminates and returns a finite sequence of chunks.
C1_ChunkerTerminates == <>(cpc = "done")

(***************************************************************************)
(* Store, disk and orchestrator.  Each process_document call runs in a     *)
(* session of its own (process_document_background, lines 70-82); the      *)
(* committed rows are what every other session reads.                      *)
(***************************************************************************)
\* the ids a caller may pass: those the store hands out and one it never does
DocIds == 1..(MaxDocs + 1)

\* file_metadata is Column(JSON) without a mutable wrapper: the session is not
\* told of a change made inside the dict it handed out
MutationTracked == FALSE

\* the committed metadata a session loads
StoredMeta(d) == documents[d].file_metadata

\* the rows of document d
ChunksOf(d) == {r \in document_chunks : r.document_id = d}

\* the Document object as a query or a refresh of an expired object loads it
Loaded(d) ==
    [bound |-> TRUE, expired |-> FALSE, dirty |-> FALSE,
     file_metadata |-> StoredMeta(d)]

\* the object with its attributes read: an expired one is loaded again
Current(w) == IF obj[w].expired THEN Loaded(pdoc[w]) ELSE obj[w]

\* document.file_metadata[key] = value on the dict the object holds
SetInPlace(o, m) ==
    [o EXCEPT !.file_metadata = m, !.dirty = o.dirty \/ MutationTracked]

\* what a commit writes of the Document: the attributes the session knows
\* to be changed
Flushed(w) ==
    IF obj[w].bound /\ obj[w].dirty /\ pdoc[w] \in DOMAIN documents
    THEN [documents EXCEPT ![pdoc[w]].file_metadata = obj[w].file_metadata]
    ELSE documents

\* sessionmaker(autocommit=False, autoflush=False): expire_on_commit keeps
\* its default, so a commit expires every object of the session
Expired(o) == [o EXCEPT !.expired = o.bound, !.dirty = FALSE]

\* the text of segment i, one of the provider's non-blank texts
SegmentText(i) == IF i % 2 = 0 THEN "a" ELSE "b"

\* create_document_record, lines 99-114, after the upload saved the file
\* (routes/documents.py lines 78-88); n is what the file's text will yield
CreateDocumentRecord(n) ==
    /\ next_doc_id <= MaxDocs
    /\ documents' = (next_doc_id :> [file_metadata |->
                          Meta("pending", AbsentCount, AbsentError)]) @@ documents
    /\ files' = files \cup {next_doc_id}
    /\ file_chunks' = (next_doc_id :> n) @@ file_chunks
    /\ next_doc_id' = next_doc_id + 1
    /\ UNCHANGED <<document_chunks, next_chunk_id>>
    /\ UNCHANGED <<procVars, delVars, chunkVars, embVars, searchVars>>

\* the file of document d leaves the disk behind the service's back
FileRemoved(d) ==
    /\ d \in files
    /\ files' = files \ {d}
    /\ UNCHANGED <<documents, document_chunks, next_doc_id, next_chunk_id,
                   file_chunks>>
    /\ UNCHANGED <<procVars, delVars, chunkVars, embVars, searchVars>>

\* process_document, lines 144-146
ProcessLoad(w, d) ==
    /\ ppc[w] = "idle"
    /\ nproc < MaxProcess
    /\ nproc' = nproc + 1
    /\ pdoc' = [pdoc EXCEPT ![w] = d]
    /\ IF d \in DOMAIN documents
       THEN /\ obj' = [obj EXCEPT ![w] = Loaded(d)]
            /\ pexc' = pexc
            /\ ppc' = [ppc EXCEPT ![w] = "check_file"]
       ELSE /\ obj' = [obj EXCEPT ![w] = NoObject]
            /\ pexc' = [pexc EXCEPT ![w] = "ValueError"]
            /\ ppc' = [ppc EXCEPT ![w] = "except"]
    /\ UNCHANGED <<session_active, session_new, pchunks, pemb, saved_chunks>>
    /\ UNCHANGED <<storeVars, delVars, chunkVars, embVars, searchVars>>

\* process_document, lines 149-150
ProcessCheckFile(w) ==
    /\ ppc[w] = "check_file"
    /\ IF pdoc[w] \in files
       THEN /\ ppc' = [ppc EXCEPT ![w] = "mark_processing"]
            /\ pexc' = pexc
       ELSE /\ ppc' = [ppc EXCEPT ![w] = "except"]
            /\ pexc' = [pexc EXCEPT ![w] = "FileNotFoundError"]
    /\ UNCHANGED <<nproc, pdoc, obj, session_active, session_new, pchunks,
                   pemb, saved_chunks>>
    /\ UNCHANGED <<storeVars, delVars, chunkVars, embVars, searchVars>>

\* process_document, lines 155-156
ProcessMarkProcessing(w) ==
    /\ ppc[w] = "mark_processing"
    /\ obj' = [obj EXCEPT ![w] =
                 SetInPlace(@, [@.file_metadata EXCEPT !.status = "processing"])]
    /\ ppc' = [ppc EXCEPT ![w] = "commit_processing"]
    /\ UNCHANGED <<nproc, pdoc, session_active, session_new, pchunks, pemb,
                   saved_chunks, pexc>>
    /\ UNCHANGED <<storeVars, delVars, chunkVars, embVars, searchVars>>

\* process_document, line 157
ProcessCommitProcessing(w) ==
    /\ ppc[w] = "commit_processing"
    /\ documents' = Flushed(w)
    /\ obj' = [obj EXCEPT ![w] = Expired(@)]
    /\ ppc' = [ppc EXCEPT ![w] = "process_file"]
    /\ UNCHANGED <<document_chunks, next_doc_id, next_chunk_id, files,
                   file_chunks>>
    /\ UNCHANGED <<nproc, pdoc, session_active, session_new, pchunks, pemb,
                   saved_chunks, pexc>>
    /\ UNCHANGED <<delVars, chunkVars, embVars, searchVars>>

\* process_document, lines 160-162: document.file_path loads the expired
\* object again (its row may be gone), process_file looks for the file again
\* (file_processor.py lines 41-42) and chunks its text
ProcessFile(w) ==
    /\ ppc[w] = "process_file"
    /\ IF pdoc[w] \notin DOMAIN documents
       THEN /\ pexc' = [pexc EXCEPT ![w] = "ObjectDeletedError"]
            /\ ppc' = [ppc EXCEPT ![w] = "except"]
            /\ UNCHANGED <<obj, pchunks>>
       ELSE /\ obj' = [obj EXCEPT ![w] = Current(w)]
            /\ IF pdoc[w] \notin files
               THEN /\ pexc' = [pexc EXCEPT ![w] = "FileNotFoundError"]
                    /\ ppc' = [ppc EXCEPT ![w] = "except"]
                    /\ pchunks' = pchunks
               ELSE /\ pexc' = pexc
                    /\ pchunks' = [pchunks EXCEPT ![w] = file_chunks[pdoc[w]]]
                    /\ ppc' = [ppc EXCEPT ![w] =
                                 IF file_chunks[pdoc[w]] = 0 THEN "mark_empty"
                                 ELSE "embed"]
    /\ UNCHANGED <<nproc, pdoc, session_active, session_new, pemb,
                   saved_chunks>>
    /\ UNCHANGED <<storeVars, delVars, chunkVars, embVars, searchVars>>

\* process_document, lines 166-168
ProcessMarkEmpty(w) ==
    /\ ppc[w] = "mark_empty"
    /\ obj' = [obj EXCEPT ![w] =
                 SetInPlace(@, [@.file_metadata EXCEPT !.status = "completed",
                                                       !.chunks_count = 0])]
    /\ saved_chunks' = [saved_chunks EXCEPT ![w] = 0]
    /\ ppc' = [ppc EXCEPT ![w] = "commit_completed"]
    /\ UNCHANGED <<nproc, pdoc, session_active, session_new, pchunks, pemb,
                   pexc>>
    /\ UNCHANGED <<storeVars, delVars, chunkVars, embVars, searchVars>>

\* process_document, lines 174-177: get_embeddings_batch as one call (its steps
\* are the provider's actions above): the lazy load on the provider's first
\* use, then one backend vector per segment, or get_embedding segment by
\* segment
ProcessEmbed(w) ==
    /\ ppc[w] = "embed"
    /\ \E outcome \in LoadOutcomes, probe_ok \in BOOLEAN, batch_ok \in BOOLEAN,
          item_ok \in [1..pchunks[w] -> BOOLEAN] :
          LET load == LazyLoadNeeded
              got == outcome = "loaded" /\ probe_ok
              m == IF load THEN (IF got THEN "loaded" ELSE "none") ELSE model
              dim == IF load /\ got THEN backend_dim ELSE dimension
              vec(i) == IF m # "none" /\ (batch_ok \/ item_ok[i])
                        THEN encode(SegmentText(i - 1))
                        ELSE get_random_vector(SegmentText(i - 1), dim)
          IN  /\ model' = m
              /\ dimension' = dim
              /\ model_load_attempted' = TRUE
              /\ load_count' = IF load THEN load_count + 1 ELSE load_count
              /\ pemb' = [pemb EXCEPT ![w] = [i \in 1..pchunks[w] |-> vec(i)]]
              /\ fallback_seen' =
                    IF m = "none"
                    THEN fallback_seen \o
                         [i \in 1..pchunks[w] |-> <<SegmentText(i - 1), vec(i)>>]
                    ELSE fallback_seen
              /\ returned_dims' =
                    returned_dims \cup {vec(i).dim : i \in 1..pchunks[w]}
              /\ rng' =
                    LET R == {i \in 1..pchunks[w] : vec(i).kind = "random"}
                    IN  IF R = {} THEN rng
                        ELSE [seed |-> SegmentText(Max(R) - 1), drawn |-> 1]
    /\ ppc' = [ppc EXCEPT ![w] = "add_chunks"]
    /\ UNCHANGED <<backend_dim, ncalls, threads, wpc, wop, wtexts, wi, wcont,
                   wout, wok>>
    /\ UNCHANGED <<nproc, pdoc, obj, session_active, session_new, pchunks,
                   saved_chunks, pexc>>
    /\ UNCHANGED <<storeVars, delVars, chunkVars, searchVars>>

\* process_document, lines 180-201: one DocumentChunk per segment, numbered
\* by enumerate, added to the session (nothing in the loop body fails for
\* the values it is given)
ProcessAddChunks(w) ==
    /\ ppc[w] = "add_chunks"
    /\ session_new' = [session_new EXCEPT ![w] =
                         [i \in 1..pchunks[w] |->
                            [document_id |-> pdoc[w], chunk_index |-> i - 1,
                             embedding |-> pemb[w][i]]]]
    /\ saved_chunks' = [saved_chunks EXCEPT ![w] = pchunks[w]]
    /\ ppc' = [ppc EXCEPT ![w] = "commit_chunks"]
    /\ UNCHANGED <<nproc, pdoc, obj, session_active, pchunks, pemb, pexc>>
    /\ UNCHANGED <<storeVars, delVars, chunkVars, embVars, searchVars>>

\* the rows an INSERT of the session's new objects adds
InsertedRows(w) ==
    {[id |-> next_chunk_id + i - 1,
      document_id |-> session_new[w][i].document_id,
      chunk_index |-> session_new[w][i].chunk_index,
      embedding |-> session_new[w][i].embedding] : i \in 1..Len(session_new[w])}

\* ProcessCommitChunks with no foreign key from document_chunks.document_id
\* to documents.id: the INSERTs go through without the document's row
ProcessCommitChunks_NoForeignKey(w) ==
    /\ ppc[w] = "commit_chunks"
    /\ \E db_ok \in BOOLEAN :
          IF db_ok
          THEN /\ document_chunks' = document_chunks \cup InsertedRows(w)
               /\ next_chunk_id' = next_chunk_id + Len(session_new[w])
               /\ documents' = Flushed(w)
               /\ session_active' = session_active
               /\ pexc' = pexc
               /\ ppc' = [ppc EXCEPT ![w] = "mark_completed"]
          ELSE /\ UNCHANGED <<document_chunks, next_chunk_id, documents>>
               /\ session_active' = [session_active EXCEPT ![w] = FALSE]
               /\ pexc' = [pexc EXCEPT ![w] = "SQLAlchemyError"]
               /\ ppc' = [ppc EXCEPT ![w] = "except"]
    /\ session_new' = [session_new EXCEPT ![w] = <<>>]
    /\ obj' = [obj EXCEPT ![w] = Expired(@)]
    /\ UNCHANGED <<next_doc_id, files, file_chunks>>
    /\ UNCHANGED <<nproc, pdoc, pchunks, pemb, saved_chunks>>
    /\ UNCHANGED <<delVars, chunkVars, embVars, searchVars>>

\* process_document, line 204: the INSERTs go through together, or the
\* flush fails (the database refuses them: the storage fails, or the
\* document's row is gone and the foreign key has no parent) and the
\* session's transaction is rolled back
ProcessCommitChunks(w) ==
    /\ ppc[w] = "commit_chunks"
    /\ \E db_ok \in BOOLEAN :
          IF db_ok /\ pdoc[w] \in DOMAIN documents
          THEN /\ document_chunks' = document_chunks \cup InsertedRows(w)
               /\ next_chunk_id' = next_chunk_id + Len(session_new[w])
               /\ documents' = Flushed(w)
               /\ session_active' = session_active
               /\ pexc' = pexc
               /\ ppc' = [ppc EXCEPT ![w] = "mark_completed"]
          ELSE /\ UNCHANGED <<document_chunks, next_chunk_id, documents>>
               /\ session_active' = [session_active EXCEPT ![w] = FALSE]
               /\ pexc' = [pexc EXCEPT ![w] = "SQLAlchemyError"]
               /\ ppc' = [ppc EXCEPT ![w] = "except"]
    /\ session_new' = [session_new EXCEPT ![w] = <<>>]
    /\ obj' = [obj EXCEPT ![w] = Expired(@)]
    /\ UNCHANGED <<next_doc_id, files, file_chunks>>
    /\ UNCHANGED <<nproc, pdoc, pchunks, pemb, saved_chunks>>
    /\ UNCHANGED <<delVars, chunkVars, embVars, searchVars>>

\* process_document, lines 207-209: document.file_metadata loads the expired
\* object again
ProcessMarkCompleted(w) ==
    /\ ppc[w] = "mark_completed"
    /\ IF pdoc[w] \notin DOMAIN documents
       THEN /\ pexc' = [pexc EXCEPT ![w] = "ObjectDeletedError"]
            /\ ppc' = [ppc EXCEPT ![w] = "except"]
            /\ obj' = obj
       ELSE /\ obj' = [obj EXCEPT ![w] =
                         SetInPlace(Current(w),
                                    [Current(w).file_metadata EXCEPT
                                       !.status = "completed",
                                       !.chunks_count = saved_chunks[w]])]
            /\ pexc' = pexc
            /\ ppc' = [ppc EXCEPT ![w] = "commit_completed"]
    /\ UNCHANGED <<nproc, pdoc, session_active, session_new, pchunks, pemb,
                   saved_chunks>>
    /\ UNCHANGED <<storeVars, delVars, chunkVars, embVars, searchVars>>

\* process_document, lines 169-171 and 210-214: commit, then return
\* (document, saved_chunks)
ProcessCommitCompleted(w) ==
    /\ ppc[w] = "commit_completed"
    /\ documents' = Flushed(w)
    /\ obj' = [obj EXCEPT ![w] = Expired(@)]
    /\ ppc' = [ppc EXCEPT ![w] = "returned"]
    /\ UNCHANGED <<document_chunks, next_doc_id, next_chunk_id, files,
                   file_chunks>>
    /\ UNCHANGED <<nproc, pdoc, session_active, session_new, pchunks, pemb,
                   saved_chunks, pexc>>
    /\ UNCHANGED <<delVars, chunkVars, embVars, searchVars>>

\* whether lines 219-220 go through: document is an object (not None), the
\* session can still load it, and its row is there to load
CanMarkFailed(w) ==
    /\ obj[w].bound
    /\ session_active[w]
    /\ (obj[w].expired => pdoc[w] \in DOMAIN documents)

\* process_document, lines 216-223 and 225-226: failed and str(e) are
\* written and committed; whatever fails in doing so is swallowed by the bare
\* except; the caught exception is raised again
ProcessExcept(w) ==
    /\ ppc[w] = "except"
    /\ IF CanMarkFailed(w)
       THEN /\ obj' = [obj EXCEPT ![w] =
                         SetInPlace(Current(w),
                                    [Current(w).file_metadata EXCEPT
                                       !.status = "failed",
                                       !.error = pexc[w]])]
            /\ ppc' = [ppc EXCEPT ![w] = "commit_failed"]
       ELSE /\ obj' = obj
            /\ ppc' = [ppc EXCEPT ![w] = "raised"]
    /\ UNCHANGED <<nproc, pdoc, session_active, session_new, pchunks, pemb,
                   saved_chunks, pexc>>
    /\ UNCHANGED <<storeVars, delVars, chunkVars, embVars, searchVars>>

\* process_document, lines 221 and 225-226
ProcessCommitFailed(w) ==
    /\ ppc[w] = "commit_failed"
    /\ documents' = Flushed(w)
    /\ obj' = [obj EXCEPT ![w] = Expired(@)]
    /\ ppc' = [ppc EXCEPT ![w] = "raised"]
    /\ UNCHANGED <<document_chunks, next_doc_id, next_chunk_id, files,
                   file_chunks>>
    /\ UNCHANGED <<nproc, pdoc, session_active, session_new, pchunks, pemb,
                   saved_chunks, pexc>>
    /\ UNCHANGED <<delVars, chunkVars, embVars, searchVars>>

\* process_document_background, lines 80-85: the session is closed; the
\* worker is free for its next task
ProcessEnd(w) ==
    /\ ppc[w] \in {"returned", "raised"}
    /\ ppc' = [ppc EXCEPT ![w] = "idle"]
    /\ pdoc' = [pdoc EXCEPT ![w] = 0]
    /\ obj' = [obj EXCEPT ![w] = NoObject]
    /\ session_active' = [session_active EXCEPT ![w] = TRUE]
    /\ session_new' = [session_new EXCEPT ![w] = <<>>]
    /\ pchunks' = [pchunks EXCEPT ![w] = 0]
    /\ pemb' = [pemb EXCEPT ![w] = <<>>]
    /\ saved_chunks' = [saved_chunks EXCEPT ![w] = 0]
    /\ pexc' = [pexc EXCEPT ![w] = "none"]
    /\ UNCHANGED nproc
    /\ UNCHANGED <<storeVars, delVars, chunkVars, embVars, searchVars>>

\* delete_document without the test of lines 312-313
DeleteLookup_NoExistenceTest(d) ==
    /\ dpc = "idle"
    /\ ddoc' = d
    /\ dremoved' = FALSE
    /\ dpc' = "remove_file"
    /\ dret' = dret
    /\ UNCHANGED <<storeVars, procVars, chunkVars, embVars, searchVars>>

\* delete_document, lines 311-313
DeleteLookup(d) ==
    /\ dpc = "idle"
    /\ ddoc' = d
    /\ dremoved' = FALSE
    /\ IF d \in DOMAIN documents
       THEN /\ dpc' = "remove_file"
            /\ dret' = dret
       ELSE /\ dpc' = "returned"
            /\ dret' = FALSE
    /\ UNCHANGED <<storeVars, procVars, chunkVars, embVars, searchVars>>

\* delete_document, lines 316-321: os.remove, whose failure is only logged
DeleteRemoveFile ==
    /\ dpc = "remove_file"
    /\ \E removed \in BOOLEAN :
          /\ files' = IF removed THEN files \ {ddoc} ELSE files
          /\ dremoved' = (removed /\ ddoc \in files)
    /\ dpc' = "delete_row"
    /\ UNCHANGED <<documents, document_chunks, next_doc_id, next_chunk_id,
                   file_chunks>>
    /\ UNCHANGED <<ddoc, dret>>
    /\ UNCHANGED <<procVars, chunkVars, embVars, searchVars>>

\* DeleteRow with the chunks left behind (no cascade)
DeleteRow_NoCascade ==
    /\ dpc = "delete_row"
    /\ \E db_ok \in BOOLEAN :
          IF db_ok
          THEN /\ documents' = [x \in DOMAIN documents \ {ddoc} |-> documents[x]]
               /\ dret' = TRUE
          ELSE /\ documents' = documents
               /\ dret' = FALSE
    /\ dpc' = "returned"
    /\ UNCHANGED <<document_chunks, next_doc_id, next_chunk_id, files,
                   file_chunks>>
    /\ UNCHANGED <<ddoc, dremoved>>
    /\ UNCHANGED <<procVars, chunkVars, embVars, searchVars>>

\* delete_document, lines 324-333: the row goes and its chunks with it
\* (cascade), or the commit fails, is rolled back and False is returned
DeleteRow ==
    /\ dpc = "delete_row"
    /\ \E db_ok \in BOOLEAN :
          IF db_ok
          THEN /\ documents' = [x \in DOMAIN documents \ {ddoc} |-> documents[x]]
               /\ document_chunks' = document_chunks \ ChunksOf(ddoc)
               /\ dret' = TRUE
          ELSE /\ UNCHANGED <<documents, document_chunks>>
               /\ dret' = FALSE
    /\ dpc' = "returned"
    /\ UNCHANGED <<next_doc_id, next_chunk_id, files, file_chunks>>
    /\ UNCHANGED <<ddoc, dremoved>>
    /\ UNCHANGED <<procVars, chunkVars, embVars, searchVars>>

\* the caller of delete_document takes the result
DeleteEnd ==
    /\ dpc = "returned"
    /\ dpc' = "idle"
    /\ ddoc' = 0
    /\ dret' = FALSE
    /\ dremoved' = FALSE
    /\ UNCHANGED <<storeVars, procVars, chunkVars, embVars, searchVars>>

Init ==
    /\ DocQuiet
    /\ ChunkQuiet
    /\ EmbQuiet
    /\ threads = {}
    /\ backend_dim = ConfiguredDim + 1

Next ==
    \/ \E n \in 0..MaxFileChunks : CreateDocumentRecord(n)
    \/ \E d \in DocIds : FileRemoved(d)
    \/ \E w \in Workers, d \in DocIds : ProcessLoad(w, d)
    \/ \E w \in Workers : ProcessCheckFile(w)
    \/ \E w \in Workers : ProcessMarkProcessing(w)
    \/ \E w \in Workers : ProcessCommitProcessing(w)
    \/ \E w \in Workers : ProcessFile(w)
    \/ \E w \in Workers : ProcessMarkEmpty(w)
    \/ \E w \in Workers : ProcessEmbed(w)
    \/ \E w \in Workers : ProcessAddChunks(w)
    \/ \E w \in Workers : ProcessCommitChunks(w)
    \/ \E w \in Workers : ProcessMarkCompleted(w)
    \/ \E w \in Workers : ProcessCommitCompleted(w)
    \/ \E w \in Workers : ProcessExcept(w)
    \/ \E w \in Workers : ProcessCommitFailed(w)
    \/ \E w \in Workers : ProcessEnd(w)
    \/ \E d \in DocIds : DeleteLookup(d)
    \/ DeleteRemoveFile
    \/ DeleteRow
    \/ DeleteEnd

\* uploads, two background workers, deletes and the disk, interleaved
Spec == Init /\ [][Next]_vars

(***************************************************************************)
(* Properties of the store and the orchestrator.                           *)
(***************************************************************************)
\* the status a reader in a session of its own finds for document d
StoredStatus(d) == StoredMeta(d).status

\* the status process sees on its Document object
HeldStatus(w) ==
    IF obj[w].expired THEN StoredStatus(pdoc[w]) ELSE obj[w].file_metadata.status

\* the state machine's edges
LifecycleEdges ==
    {<<"pending", "processing">>, <<"processing", "completed">>,
     <<"processing", "failed">>}

\* process holds an object of a document whose row is there
Holds(w) == obj[w].bound /\ pdoc[w] \in DOMAIN documents

\* w's invocation ends in this step
Ends(w) ==
    ppc[w] \notin {"returned", "raised"} /\ ppc'[w] \in {"returned", "raised"}

\* C2: a document is created pending, and its status only ever changes along
\* pending -> processing, processing -> completed and processing -> failed,
\* in the store and on the object a process invocation works on.
C2_OneWayLifecycle ==
    [][/\ \A d \in DOMAIN documents' \ DOMAIN documents :
            StoredStatus(d)' = "pending"
       /\ \A d \in DOMAIN documents \cap DOMAIN documents' :
            \/ StoredStatus(d)' = StoredStatus(d)
            \/ <<StoredStatus(d), StoredStatus(d)'>> \in LifecycleEdges
       /\ \A w \in Workers :
            (Holds(w) /\ Holds(w)' /\ pdoc'[w] = pdoc[w])
                => \/ HeldStatus(w)' = HeldStatus(w)
                   \/ <<HeldStatus(w), HeldStatus(w)'>> \in LifecycleEdges]_vars

\* C5: when a process invocation returns, with no other invocation under
\* way, the stored status is completed and the stored chunks_count is the
\* number of the document's rows.
C5_CompletedCountMatchesRows ==
    [][\A w \in Workers :
          (/\ ppc[w] # "returned"
           /\ ppc'[w] = "returned"
           /\ \A v \in Workers \ {w} : ppc[v] = "idle"
           /\ dpc = "idle"
           /\ pdoc[w] \in DOMAIN documents')
              => /\ StoredStatus(pdoc[w])' = "completed"
                 /\ StoredMeta(pdoc[w])'.chunks_count
                       = Cardinality(ChunksOf(pdoc[w]))']_vars

\* C6: in every state the chunk_index values of one document's rows are
\* pairwise distinct and are exactly 0..N-1.
C6_DenseDistinctIndexes ==
    \A d \in DocIds :
        /\ \A r1, r2 \in ChunksOf(d) :
              r1 # r2 => r1.chunk_index # r2.chunk_index
        /\ {r.chunk_index : r \in ChunksOf(d)}
              = 0..(Cardinality(ChunksOf(d)) - 1)

\* C7: an invocation on a document that is there ends with the status
\* completed and every segment it produced stored, or with the status
\* failed; the rows of one commit are stored together or not at all.
C7_AllOrFailed ==
    [][/\ \A w \in Workers :
            (Ends(w) /\ Holds(w)')
                => \/ /\ StoredStatus(pdoc[w])' = "completed"
                      /\ \A i \in 0..(pchunks[w] - 1) :
                            \E r \in ChunksOf(pdoc[w])' : r.chunk_index = i
                   \/ StoredStatus(pdoc[w])' = "failed"
       /\ \A w \in Workers :
            LET added == document_chunks' \ document_chunks
            IN  (ppc[w] = "commit_chunks" /\ ppc'[w] # "commit_chunks")
                    => Cardinality(added) \in {0, Len(session_new[w])}]_vars

\* C8: when the file is absent at the check, process raises the not-found
\* error, adds no chunk, and ends with the stored status failed and a
\* non-empty stored error.
C8_MissingFileFails ==
    [][\A w \in Workers :
          /\ (ppc[w] = "check_file" /\ ppc'[w] # "check_file"
                /\ pdoc[w] \notin files)
                => pexc'[w] = "FileNotFoundError"
          /\ (Ends(w) /\ pexc[w] = "FileNotFoundError" /\ Holds(w)')
                => /\ ppc'[w] = "raised"
                   /\ saved_chunks[w] = 0
                   /\ document_chunks' = document_chunks
                   /\ StoredStatus(pdoc[w])' = "failed"
                   /\ StoredMeta(pdoc[w])'.error # AbsentError]_vars

\* C9: an invocation that raises after it loaded the document ends with the
\* stored status failed and the exception's text as the stored error, and
\* raises that same exception; a stored status failed always comes with an
\* error.
C9_FailureRecorded ==
    [][/\ \A w \in Workers :
            (Ends(w) /\ ppc'[w] = "raised" /\ Holds(w)')
                => /\ StoredStatus(pdoc[w])' = "failed"
                   /\ StoredMeta(pdoc[w])'.error = pexc[w]
                   /\ pexc'[w] = pexc[w]
       /\ \A d \in DOMAIN documents' :
            StoredStatus(d)' = "failed" => StoredMeta(d)'.error # AbsentError]_vars

\* C10: delete of an id that has no row returns False at the lookup and
\* leaves every document row, every chunk row and every file as it was.
C10_DeleteMissingIsNoOp ==
    [][(dpc = "idle" /\ dpc' # "idle" /\ ddoc' \notin DOMAIN documents)
          => /\ dpc' = "returned"
             /\ dret' = FALSE
             /\ UNCHANGED <<documents, document_chunks, files>>]_vars

\* a delete of the id the store never handed out has returned False with a
\* document, its chunks and its file in place
C10_Witness ==
    /\ dpc = "returned"
    /\ ddoc >= next_doc_id
    /\ dret = FALSE
    /\ DOMAIN documents # {}
    /\ document_chunks # {}
    /\ files # {}

\* C11: once delete has returned True the document's row is gone and no
\* chunk row carries its id, whether or not the file could be removed.
C11_DeleteRemovesRowAndChunks ==
    (dpc = "returned" /\ dret = TRUE)
        => /\ ddoc \notin DOMAIN documents
           /\ ChunksOf(ddoc) = {}

\* delete has returned True for a document that had chunks, with the file
\* still on disk (its removal failed)
C11_Witness ==
    /\ dpc = "returned"
    /\ dret = TRUE
    /\ ddoc \in files
    /\ next_chunk_id > 1
    /\ ddoc \notin DOMAIN documents
    /\ document_chunks = {}

(***************************************************************************)
(* Search.  Vectors are sequences of integers; the modelled ones are the  *)
(* zero vector and unit vectors along an axis, whose norms are integers.   *)
(* Similarities and thresholds are in tenths.                              *)
(***************************************************************************)
\* most rows of document_chunks
MaxRows == 2
\* largest limit passed
MaxLimit == 2

\* similarity 1.0, in tenths
One == 10

\* settings.SIMILARITY_THRESHOLD, in tenths
DefaultThreshold == 7

\* query vectors (get_embedding(query), line 218): the zero vector of a
\* blank query and three unit vectors
QueryVectors == {<<0, 0>>, <<1, 0>>, <<0, 1>>, <<-1, 0>>}

\* column embedding: NULL, or a list of the query's length or of another
NoEmbedding == [present |-> FALSE, v |-> <<>>]
StoredEmbeddings ==
    {NoEmbedding} \cup
    {[present |-> TRUE, v |-> v] : v \in QueryVectors \cup {<<1>>}}

\* thresholds passed: -1.0, 0.0, the default and 1.0
Thresholds == {-One, 0, DefaultThreshold, One}

\* what db.query(DocumentChunk)...all() may answer for n rows: the rows with
\* ids 1..n in either order of id
StoreAnswersOfLen(n) ==
    UNION {{[i \in 1..n |-> [id |-> IF up THEN i ELSE n + 1 - i,
                              embedding |-> es[i]]] : up \in BOOLEAN}
           : es \in [1..n -> StoredEmbeddings]}

StoreAnswers == UNION {StoreAnswersOfLen(n) : n \in 0..MaxRows}

RECURSIVE Dot(_, _)
Dot(a, b) ==
    IF a = <<>> THEN 0 ELSE Head(a) * Head(b) + Dot(Tail(a), Tail(b))

\* np.linalg.norm, for vectors whose norm is an integer
Norm(a) == CHOOSE n \in 0..(Dot(a, a)) : n * n = Dot(a, a)

\* max(-1.0, min(1.0, similarity)), line 183
Clamp(x) == IF x < -One THEN -One ELSE IF x > One THEN One ELSE x

\* calculate_similarity, lines 161-189: np.dot raises for lengths that
\* differ, and the except of line 187 makes that 0.0
calculate_similarity(vec1, vec2) ==
    IF Len(vec1) # Len(vec2) THEN 0
    ELSE IF Norm(vec1) = 0 \/ Norm(vec2) = 0 THEN 0
    ELSE Clamp((One * Dot(vec1, vec2)) \div (Norm(vec1) * Norm(vec2)))

\* cosine_similarity with the name bound to calculate_similarity
cosine_similarity_Defined(vec1, vec2) ==
    [raised |-> FALSE, value |-> calculate_similarity(vec1, vec2)]

\* self.cosine_similarity(...), line 240: VectorService defines no such
\* attribute, so the call raises AttributeError
cosine_similarity(vec1, vec2) == [raised |-> TRUE, value |-> 0]

\* the query of lines 227-229: rows whose embedding IS NOT NULL (every row
\* has its document, so the join drops none)
Fetched(rows) == SelectSeq(rows, LAMBDA r : r.embedding.present)

\* the except of lines 248-249 with the chunk scored 0.0
SimilarityFailed_ScoredZero(results, chunk) ==
    Append(results, [chunk |-> chunk, similarity |-> 0])

\* the except of lines 248-249: the failure is logged, the chunk left out
SimilarityFailed(results, chunk) == results

\* lines 236-249: results_with_scores
RECURSIVE Scored(_, _, _)
Scored(q, cs, thr) ==
    IF cs = <<>> THEN <<>>
    ELSE LET chunk == cs[Len(cs)]
             before == Scored(q, SubSeq(cs, 1, Len(cs) - 1), thr)
             sim == cosine_similarity(q, chunk.embedding.v)
         IN  IF ~chunk.embedding.present \/ chunk.embedding.v = <<>> THEN before
             ELSE IF sim.raised THEN SimilarityFailed(before, chunk)
             ELSE IF sim.value >= thr
                  THEN Append(before, [chunk |-> chunk, similarity |-> sim.value])
                  ELSE before

\* line 252: list.sort(key = similarity, reverse = True), which is stable:
\* items of equal similarity keep the order they had
RECURSIVE SortedBySimilarity(_)
SortedBySimilarity(rs) ==
    IF rs = <<>> THEN <<>>
    ELSE LET last == rs[Len(rs)]
             front == SortedBySimilarity(SubSeq(rs, 1, Len(rs) - 1))
             k == Cardinality({i \in 1..Len(front) :
                                 front[i].similarity >= last.similarity})
         IN  SubSeq(front, 1, k) \o <<last>> \o SubSeq(front, k + 1, Len(front))

\* line 253: results_with_scores[:limit] for limit >= 0
Take(rs, n) == SubSeq(rs, 1, Min(n, Len(rs)))

\* lines 256-268 with the fetched chunks converted in place of the scored ones
Converted_FromChunks(cs, rs) ==
    [i \in 1..Len(cs) |-> [chunk_id |-> cs[i].id, similarity |-> 0]]

\* lines 256-268: one DocumentSearchResult per item of results_with_scores
Converted(cs, rs) ==
    [i \in 1..Len(rs) |-> [chunk_id |-> rs[i].chunk.id,
                            similarity |-> rs[i].similarity]]

\* search_similar, lines 222-275, for the query vector q
search_similar(rows, q, lim, thr) ==
    LET cs == Fetched(rows)
    IN  IF cs = <<>> THEN <<>>
        ELSE Converted(cs,
                       Take(SortedBySimilarity(Scored(q, cs, thr)), lim))

\* a call of search_similar on a store of up to MaxRows chunks
SearchInit ==
    /\ EmbQuiet
    /\ ChunkQuiet
    /\ IngestQuiet
    /\ threads = {}
    /\ backend_dim = ConfiguredDim
    /\ stored \in StoreAnswers
    /\ query_embedding \in QueryVectors
    /\ limit \in 0..MaxLimit
    /\ threshold \in Thresholds
    /\ search_results = <<>>
    /\ spc = "called"

\* search_similar, lines 217-275
SearchSimilar ==
    /\ spc = "called"
    /\ search_results' = search_similar(stored, query_embedding, limit, threshold)
    /\ spc' = "returned"
    /\ UNCHANGED <<stored, query_embedding, limit, threshold>>
    /\ UNCHANGED <<chunkVars, embVars, storeVars, procVars, delVars>>

SearchNext == SearchSimilar

SearchSpec == SearchInit /\ [][SearchNext]_vars

(***************************************************************************)
(* Properties of search.                                                   *)
(***************************************************************************)
\* the stored rows, whatever their order
StoredRows == {stored[i] : i \in 1..Len(stored)}

\* the row a result stands for
RowOf(r) == CHOOSE x \in StoredRows : x.id = r.chunk_id

\* a stored chunk search has to consider: its embedding is there and has the
\* query's length
Comparable(x) ==
    x.embedding.present /\ Len(x.embedding.v) = Len(query_embedding)

\* the cosine similarity of a comparable chunk to the query, in tenths
Score(x) == calculate_similarity(query_embedding, x.embedding.v)

ResultIds == {search_results[i].chunk_id : i \in 1..Len(search_results)}

\* C12: every comparable stored chunk whose similarity reaches the threshold
\* is in the result, unless the result holds limit chunks that score at least
\* as high.
C12_TopMatchesReturned ==
    spc = "returned" =>
        \A x \in StoredRows :
            (Comparable(x) /\ Score(x) >= threshold)
                => \/ x.id \in ResultIds
                   \/ /\ Len(search_results) = limit
                      /\ \A i \in 1..Len(search_results) :
                            search_results[i].similarity >= Score(x)

\* the other order in which the store may answer
Reversed(rows) == [i \in 1..Len(rows) |-> rows[Len(rows) + 1 - i]]

C14_AtMostLimit ==
    (spc = "returned" /\ limit >= 0) => Len(search_results) <= limit

\* search has returned with more matching chunks stored than the limit
C14_Witness ==
    /\ spc = "returned"
    /\ Cardinality({x \in StoredRows :
                      Comparable(x) /\ Score(x) >= threshold}) > limit
    /\ Len(search_results) <= limit

\* C15: no result has a similarity below the threshold.
C15_NoneBelowThreshold ==
    spc = "returned" =>
        \A i \in 1..Len(search_results) :
            search_results[i].similarity >= threshold

\* search has returned with a comparable chunk stored that scores below the
\* threshold, and that chunk is not in the result
C15_Witness ==
    /\ spc = "returned"
    /\ \E x \in StoredRows :
          Comparable(x) /\ Score(x) < threshold /\ x.id \notin ResultIds

C17_BlankGetsZeroVectorFirst ==
    [][\A w \in Workers :
          (wpc[w] = "ge_start" /\ IsBlank(wtexts[w][wi[w]]))
              => /\ wpc'[w] \in {"returned", "ge_start"}
                 /\ Len(wout'[w]) = Len(wout[w]) + 1
                 /\ LastVector(wout'[w]) = get_zero_vector(dimension)
                 /\ model_load_attempted' = model_load_attempted
                 /\ load_count' = load_count
                 /\ model' = model
                 /\ dimension' = dimension]_vars

\* a first call, on a blank text, has returned the zero vector and the
\* provider is still uninitialised
C17_Witness ==
    /\ wpc["w1"] = "returned"
    /\ wop["w1"] = "single"
    /\ IsBlank(wtexts["w1"][1])
    /\ wout["w1"] = <<get_zero_vector(ConfiguredDim)>>
    /\ ~model_load_attempted
    /\ load_count = 0

\* get_embedding, lines 102-122: the vectors a call on t can hand back in the
\* provider's present mode
get_embedding_results(t) ==
    IF IsBlank(t) THEN {get_zero_vector(dimension)}
    ELSE IF model # "none" THEN {encode(t), get_random_vector(t, dimension)}
    ELSE {get_random_vector(t, dimension)}

\* C18: a returned get_embeddings_batch call holds one vector per text, and
\* the i-th is a vector get_embedding hands back for the i-th text, blank
\* texts included.
C18_BatchEqualsPerItem ==
    \A w \in Workers :
        (wpc[w] = "returned" /\ wop[w] = "batch")
            => /\ Len(wout[w]) = Len(wtexts[w])
               /\ \A i \in 1..Len(wtexts[w]) :
                     wout[w][i] \in get_embedding_results(wtexts[w][i])

\* C19: in fallback mode get_embedding answers a non-blank text with the same
\* vector every time, whatever was embedded in between.
C19_FallbackVectorsRepeat ==
    \A i, j \in 1..Len(fallback_seen) :
        (fallback_seen[i][1] = fallback_seen[j][1]
            /\ ~IsBlank(fallback_seen[i][1]))
            => fallback_seen[i][2] = fallback_seen[j][2]

\* the same non-blank text was embedded twice in fallback mode with another
\* text embedded in between, and the last call has returned
C19_Witness ==
    /\ wpc["w1"] = "returned"
    /\ FallbackMode
    /\ \E i, j, k \in 1..Len(fallback_seen) :
          /\ i < j /\ j < k
          /\ ~IsBlank(fallback_seen[i][1])
          /\ fallback_seen[k][1] = fallback_seen[i][1]
          /\ fallback_seen[j][1] \notin {"", " ", fallback_seen[i][1]}
          /\ fallback_seen[k][2] = fallback_seen[i][2]

\* C20: a call of get_embedding or get_embeddings_batch always returns, with
\* one vector per text, and the vector of a non-blank text is the backend's
\* or, when the backend raised on it, the vector seeded by that text at the
\* provider's dimension.
C20_BackendErrorsAbsorbed ==
    \A w \in Workers :
        (wpc[w] = "returned" /\ wop[w] \in {"single", "batch"})
            => /\ Len(wout[w]) = Len(wtexts[w])
               /\ \A i \in 1..Len(wtexts[w]) :
                     ~IsBlank(wtexts[w][i])
                         => wout[w][i] \in {encode(wtexts[w][i]),
                                           get_random_vector(wtexts[w][i],
                                                             dimension)}

\* a batch call has returned with a model loaded: its batch encode raised,
\* the backend raised again on the first text alone and answered the second
C20_Witness ==
    /\ wpc["w1"] = "returned"
    /\ wop["w1"] = "batch"
    /\ model # "none"
    /\ Len(wtexts["w1"]) = MaxBatch
    /\ ~IsBlank(wtexts["w1"][1])
    /\ wout["w1"][1] = get_random_vector(wtexts["w1"][1], dimension)
    /\ wout["w1"][MaxBatch] = encode(wtexts["w1"][MaxBatch])

\* C21: all vectors the provider has handed back, zero, seeded and backend
\* vectors alike, before and after the load, have one length.
C21_OneVectorLength == Cardinality(returned_dims) <= 1

\* C22: the _try_load_model of a reload_model call always goes on to a new
\* load attempt, also when a load was attempted before, and reload_model
\* answers true exactly when a model is loaded afterwards.
C22_ReloadLoadsAgain ==
    [][\A w \in Workers :
          /\ (wop[w] = "reload" /\ wpc[w] = "tl_check" /\ wpc'[w] # "tl_check")
                => /\ wpc'[w] = "tl_mark"
                   /\ load_count' = load_count
          /\ (wop[w] = "reload" /\ wpc[w] = "tl_mark" /\ wpc'[w] # "tl_mark")
                => load_count' = load_count + 1
          /\ (wpc[w] = "rl_done" /\ wpc'[w] = "returned")
                => wok'[w] = (model' # "none")]_vars

\* C23: an invocation whose file yields no segment does not fail: it goes
\* from the empty result to its commit and returns, and then the document
\* has no rows, the stored status is completed and the stored chunks_count
\* is 0.
C23_EmptyTextCompletes ==
    [][\A w \in Workers :
          /\ (ppc[w] = "mark_empty" /\ ppc'[w] # "mark_empty")
                => ppc'[w] = "commit_completed"
          /\ (/\ ppc[w] = "commit_completed"
              /\ ppc'[w] # "commit_completed"
              /\ pchunks[w] = 0
              /\ Holds(w)')
                => /\ ppc'[w] = "returned"
                   /\ ChunksOf(pdoc[w])' = {}
                   /\ StoredStatus(pdoc[w])' = "completed"
                   /\ StoredMeta(pdoc[w])'.chunks_count = 0]_vars

(***************************************************************************)
(* Properties of the chunker's windows.                                    *)
(***************************************************************************)

\* C24: every chunk in the chunker's list is non-empty and neither begins nor
\* ends with whitespace (so none is whitespace-only), whatever the text.
C24_ChunksTrimmedNonEmpty ==
    \A i \in 1..Len(chunks) :
        /\ chunks[i] # <<>>
        /\ Head(chunks[i]) \notin Whitespace
        /\ chunks[i][Len(chunks[i])] \notin Whitespace

\* the chunker has returned for a text whose first window had whitespace
\* around its one letter and whose second window was whitespace only
C24_Witness ==
    /\ cpc = "done"
    /\ text = <<" ", "a", " ", "\n">>
    /\ chunk_size = 2
    /\ chunk_overlap = 0
    /\ chunks = << <<"a">> >>

\* C25: when the loop moves the start, the new start is not negative and
\* lies strictly to the right of the start of the window just cut.
C25_StartStrictlyIncreases ==
    [][(cpc = "cut" /\ cpc' = "loop")
          => /\ start' >= 0
             /\ start' > start]_vars

\* a sentence terminator ends at position i of t (counted from 1): one of
\* the six marks, or the second of two newlines that both lie behind s
TerminatorEndsAt(t, i, s) ==
    \/ t[i] \in {".", "!", "?", "U+3002", "U+FF01", "U+FF1F"}
    \/ (i - 1 > s /\ t[i - 1] = "\n" /\ t[i] = "\n")

\* the terminators of the window from s to the raw edge e that lie more than
\* 70% of size past s
TerminatorCuts(t, s, e, size) ==
    {i \in (s + 1)..e : TerminatorEndsAt(t, i, s) /\ 10 * (i - s) > 7 * size}

\* C26: when the raw edge of a window is not the end of the text and a
\* sentence terminator, a double newline included, ends more than 70% of
\* chunk_size past the window's start, the window is cut at the last such
\* terminator.
C26_CutAtSentenceEnd ==
    [][(cpc = "loop" /\ cpc' = "cut")
          => LET e == Min(start + chunk_size, Len(text))
                 P == TerminatorCuts(text, start, e, chunk_size)
             IN  (e < Len(text) /\ P # {}) => end' = Max(P)]_vars

(***************************************************************************)
(* Properties of what process and delete leave in the store.               *)
(***************************************************************************)

\* C27: each commit that follows a status write of process stores the
\* metadata process wrote on its object, so that once the invocation has
\* returned or raised through such a commit another session reads the
\* status completed or failed, not the pending of creation.
C27_StatusWritesStored ==
    [][\A w \in Workers :
          (/\ ppc[w] \in {"commit_processing", "commit_completed",
                          "commit_failed"}
           /\ ppc'[w] # ppc[w]
           /\ Holds(w))
              => /\ StoredMeta(pdoc[w])' = obj[w].file_metadata
                 /\ Ends(w) => StoredStatus(pdoc[w])' \in {"completed", "failed"}]_vars

\* C28: a delete_document call that returns False has left the store and
\* the disk as they were: its last step changes no document and no chunk,
\* and the call has not removed the document's file.
C28_FailedDeleteChangesNothing ==
    [][(dpc # "returned" /\ dpc' = "returned" /\ dret' = FALSE)
          => /\ UNCHANGED <<documents, document_chunks, files>>
             /\ ~dremoved']_vars

\* C29: when workers generate fallback vectors at the same time for
\* different texts, each call hands back the vector it hands back when run
\* alone: the first draw after seeding with its own text.
C29_ConcurrentFallbackUnchanged ==
    [][\A w \in Workers :
          (/\ wpc[w] = "rv_draw"
           /\ wpc'[w] # "rv_draw"
           /\ \A v \in Workers \ {w} :
                 wpc[v] \in {"rv_seed", "rv_draw"}
                     => wtexts[v][wi[v]] # wtexts[w][wi[w]])
              => LastVector(wout'[w])
                     = get_random_vector(wtexts[w][wi[w]], dimension)]_vars

\* C30: however process and delete of one document interleave, every chunk
\* row belongs to a document that is there, and a document that was deleted
\* stays deleted and gets no chunk.
C30_NoOrphanAfterDelete ==
    [][/\ \A r \in document_chunks' : r.document_id \in DOMAIN documents'
       /\ \A d \in DocIds :
            (d < next_doc_id /\ d \notin DOMAIN documents)
                => /\ d \notin DOMAIN documents'
                   /\ ChunksOf(d)' = {}]_vars

\* a process invocation stored its chunks, delete then removed the document
\* and the chunks, and the invocation found its row gone and raised
C30_Witness ==
    \E w \in Workers :
        /\ ppc[w] = "raised"
        /\ pexc[w] = "ObjectDeletedError"
        /\ saved_chunks[w] > 0
        /\ next_chunk_id > 1
        /\ pdoc[w] \notin DOMAIN documents
        /\ document_chunks = {}

====
